---- MODULE Spec2Model ----
(***************************************************************************)
(* Model of the tpm2-abrmd ResourceManager (src/src/resource-manager.c):   *)
(* the worker thread that dequeues Tpm2Command objects, loads the contexts *)
(* of the virtual handles they carry, sends them through the AccessBroker, *)
(* virtualizes the handle of the response, enqueues the response on the    *)
(* Sink and saves/flushes every context it touched.                        *)
(***************************************************************************)
EXTENDS Integers, Sequences, FiniteSets, TLC

\* ------------------------------------------------------------------ bounds
\* messages enqueued on the input queue in one run
MaxMsgs == 3
\* longest handle area of the commands that carry client chosen handles
MaxHandles == 2

\* ------------------------------------------------- environment parameters
\* transient object slots of the TPM behind the AccessBroker
NumSlots == 3
\* max_entries of every connection's transient HandleMap
Capacity == 2
\* connections whose commands reach the ResourceManager
Connections == {1, 2}

\* ------------------------------------------------------ program constants
ENTRY_COUNT == 4
TSS2_RC_SUCCESS == 0
TSS2_BASE_RC_GENERAL_FAILURE == 1
TSS2_RESMGR_ERROR_LEVEL == 720896
TPM_RC_HANDLE == 139
TPM_RC_P == 64
TPM_RC_1 == 256
TPM_RC_OBJECT_MEMORY == 2306
TSS2_RESMGR_RC_OBJECT_MEMORY == TSS2_RESMGR_ERROR_LEVEL + TPM_RC_OBJECT_MEMORY
\* rc of a TPM command the TPM refused
TPM_RC_FAILURE == 257
\* rc the AccessBroker reports when the exchange with the TPM failed
TSS2_TCTI_RC_IO_ERROR == 655370
RM_RC(rc) == TSS2_RESMGR_ERROR_LEVEL + rc

TPM_HT_POLICY_SESSION == 3
TPM_HT_PERMANENT == 64
TPM_HT_TRANSIENT == 128

TPM_CC_CreatePrimary == "CreatePrimary"
TPM_CC_Load == "Load"
TPM_CC_LoadExternal == "LoadExternal"
TPM_CC_ContextLoad == "ContextLoad"
TPM_CC_FlushContext == "FlushContext"
TPM_CC_StartAuthSession == "StartAuthSession"
TPM_CC_Sign == "Sign"

\* ----------------------------------------------------------------- handles
\* A TPM_HANDLE is a 32 bit value whose top byte is the handle type; the
\* model keeps the type byte (ht) and the low 24 bits (ix) apart.
Handle(ht, ix) == [ht |-> ht, ix |-> ix]
\* handle >> HR_SHIFT
HandleType(handle) == handle.ht
NoHandle == Handle(0, 0)
Transient(ix) == Handle(TPM_HT_TRANSIENT, ix)
SessionHandle == Handle(TPM_HT_POLICY_SESSION, 0)
TPM_RH_OWNER == Handle(TPM_HT_PERMANENT, 1)
TPM_RH_NULL == Handle(TPM_HT_PERMANENT, 7)

\* The TPMS_CONTEXT of an entry: the object the blob was saved from, 0 for
\* the blob of a new entry that no context_saveflush has filled yet.
EmptyContext == 0

VARIABLES
    in_queue,       \* resmgr->in_queue: the messages enqueued, oldest first
    enqueued,       \* number of messages enqueued so far
    pc,             \* position of the worker thread
    command,        \* the Tpm2Command being processed (its handle area is rewritten)
    entries,        \* HandleMapEntry *entries[ENTRY_COUNT] of process_tpm2_command
    entry_count,    \* guint entry_count of process_tpm2_command
    i,              \* loop index of load_contexts / of the flushsave loop
    load_rc,        \* TSS2_RC rc of resource_manager_load_contexts
    response,       \* Tpm2Response *response of process_tpm2_command
    maps,           \* per connection: the transient HandleMap, vhandle index -> entry
    next_vhandle,   \* per connection: the HandleMap's vhandle allocator
    refs,           \* per connection: vhandle index -> reference count of the
                    \* HandleMapEntry created for it
    tpm,            \* the TPM's transient slots: slot -> object loaded, 0 when free
    sink,           \* the objects handed to sink_enqueue for the command being
                    \* processed, oldest first
    responded,      \* ids of the commands a sink_enqueue call was made for
    issued,         \* per connection: the transient handles placed in the
                    \* responses handed to the sink so far
    calls,          \* AccessBroker calls made for the command being processed
    conn_refs,      \* references process_tpm2_command and its callees hold on
                    \* the command's connection: acquired less released
    inflight,       \* ids of the commands dequeued and not yet returned from
    arrived         \* ids of the commands enqueued so far; ids grow with arrival

vars == <<in_queue, enqueued, pc, command, entries, entry_count, i, load_rc,
          response, maps, next_vhandle, refs, tpm, sink, responded, issued,
          calls, conn_refs, inflight, arrived>>

\* ---------------------------------------------------------------- messages
\* handles a client puts in a handle area or names in FlushContext
HandleValues == {Transient(0), Transient(1), SessionHandle}
\* the handle areas of at most n handles
HandleAreas(n) == UNION {[1..k -> HandleValues] : k \in 0..n}
\* a handle area longer than the ENTRY_COUNT - 1 entries load_contexts is given
OversizeArea == [k \in 1..ENTRY_COUNT |-> SessionHandle]

Shape(code, handles, flush_handle) ==
    [code |-> code, handles |-> handles, flush_handle |-> flush_handle]

\* what tpm2_command_get_code, _get_handles and _get_flush_handle can report
CommandShapes ==
    {Shape(TPM_CC_CreatePrimary, <<TPM_RH_OWNER>>, NoHandle),
     Shape(TPM_CC_Load, <<Transient(0)>>, NoHandle),
     Shape(TPM_CC_LoadExternal, <<>>, NoHandle),
     Shape(TPM_CC_ContextLoad, <<>>, NoHandle),
     Shape(TPM_CC_StartAuthSession, <<TPM_RH_NULL, TPM_RH_NULL>>, NoHandle),
     Shape(TPM_CC_Sign, OversizeArea, NoHandle)}
    \cup {Shape(TPM_CC_Sign, hs, NoHandle) : hs \in HandleAreas(MaxHandles)}
    \cup {Shape(TPM_CC_FlushContext, <<>>, h) : h \in HandleValues}

\* The objects on the input queue. What the accessors of a Tpm2Command
\* report (its connection, code, handle area and flush handle) is the
\* client's choice and is drawn when the worker takes the command off the
\* queue and reads it.
QueuedCommand(id) == [type |-> "command", id |-> id]
\* control_message_new (CHECK_CANCEL)
ControlMessage(id) == [type |-> "control", id |-> id]
\* the NULL object that ends the thread
NullMessage(id) == [type |-> "null", id |-> id]

Tpm2Command(id, conn, shape) ==
    [id |-> id, conn |-> conn, code |-> shape.code,
     handles |-> shape.handles, flush_handle |-> shape.flush_handle]
NoCommand == Tpm2Command(0, 0, Shape("NULL", <<>>, NoHandle))

tpm2_command_get_code(cmd) == cmd.code
tpm2_command_get_connection(cmd) == cmd.conn
tpm2_command_get_handle_count(cmd) == Len(cmd.handles)
tpm2_command_get_flush_handle(cmd) == cmd.flush_handle
\* handle_number is 0-based
tpm2_command_set_handle(cmd, handle, handle_number) ==
    [cmd EXCEPT !.handles[handle_number + 1] = handle]

\* --------------------------------------------------------------- responses
Tpm2Response(conn, rc, has_handle, handle) ==
    [null |-> FALSE, conn |-> conn, rc |-> rc, has_handle |-> has_handle,
     handle |-> handle]
\* the NULL Tpm2Response pointer
NullResponse ==
    [null |-> TRUE, conn |-> 0, rc |-> 0, has_handle |-> FALSE, handle |-> NoHandle]
\* a response the ResourceManager builds itself: a header carrying rc
tpm2_response_new_rc(conn, rc) == Tpm2Response(conn, rc, FALSE, NoHandle)
tpm2_response_has_handle(resp) == resp.has_handle
tpm2_response_get_handle(resp) == resp.handle
tpm2_response_set_handle(resp, handle) == [resp EXCEPT !.handle = handle]

\* ------------------------------------------------ entries of a handle map
HandleMapEntry(phandle, context) == [phandle |-> phandle, context |-> context]
\* a HandleMapEntry pointer: the entry created for vhandle index vh of conn
EntryRef(conn, vh) == [kind |-> "entry", conn |-> conn, vh |-> vh]
NullEntry == [kind |-> "null", conn |-> 0, vh |-> 0]
\* a slot of entries[] nothing was stored in
Uninitialized == [kind |-> "uninit", conn |-> 0, vh |-> 0]
NoEntries == [k \in 0..(ENTRY_COUNT - 1) |-> Uninitialized]

EmptyMap == [vh \in {} |-> HandleMapEntry(NoHandle, EmptyContext)]
handle_map_vlookup(map, vhandle) ==
    IF vhandle.ix \in DOMAIN map THEN vhandle.ix ELSE -1
handle_map_insert(map, vhandle, entry) ==
    IF vhandle.ix \in DOMAIN map THEN map ELSE (vhandle.ix :> entry) @@ map
handle_map_remove(map, vhandle) ==
    [vh \in (DOMAIN map) \ {vhandle.ix} |-> map[vh]]
handle_map_size(map) == Cardinality(DOMAIN map)
handle_map_is_full(map) == handle_map_size(map) = Capacity
\* the allocator hands out the transient handles base, base + 1, ... in turn
handle_map_next_vhandle(next) == Transient(next)

Init ==
    /\ in_queue = <<>>
    /\ enqueued = 0
    /\ pc = "idle"
    /\ command = NoCommand
    /\ entries = NoEntries
    /\ entry_count = 0
    /\ i = 0
    /\ load_rc = TSS2_RC_SUCCESS
    /\ response = NullResponse
    /\ maps = [c \in Connections |-> EmptyMap]
    /\ next_vhandle = [c \in Connections |-> 0]
    /\ refs = [c \in Connections |-> <<>>]
    /\ tpm = [s \in 1..NumSlots |-> 0]
    /\ sink = <<>>
    /\ responded = {}
    /\ issued = [c \in Connections |-> {}]
    /\ calls = <<>>
    /\ conn_refs = 0
    /\ inflight = {}
    /\ arrived = {}

worker_vars == <<pc, command, entries, entry_count, i, load_rc, response, maps,
                 next_vhandle, refs, tpm, sink, responded, issued, calls, conn_refs,
                 inflight>>
locals == <<command, entries, entry_count, i, load_rc, response, calls,
            conn_refs>>
\* what the sink has been handed
outputs == <<sink, responded, issued>>

\* ----------------------------------------------------------- the producers
message_queue_enqueue(queue, obj) == Append(queue, obj)
message_queue_dequeue(queue) == Head(queue)

\* resource_manager_enqueue called with a Tpm2Command
EnqueueCommand ==
    /\ enqueued < MaxMsgs
    /\ pc # "crashed"
    /\ arrived' = arrived \cup {enqueued + 1}
    /\ in_queue' = message_queue_enqueue(in_queue, QueuedCommand(enqueued + 1))
    /\ enqueued' = enqueued + 1
    /\ UNCHANGED worker_vars

\* resource_manager_enqueue called with the NULL object
EnqueueNull ==
    /\ enqueued < MaxMsgs
    /\ pc # "crashed"
    /\ UNCHANGED arrived
    /\ in_queue' = message_queue_enqueue(in_queue, NullMessage(enqueued + 1))
    /\ enqueued' = enqueued + 1
    /\ UNCHANGED worker_vars

\* resource_manager_unblock: a CHECK_CANCEL ControlMessage is enqueued
Unblock ==
    /\ enqueued < MaxMsgs
    /\ pc # "crashed"
    /\ UNCHANGED arrived
    /\ in_queue' = message_queue_enqueue(in_queue,
                       ControlMessage(enqueued + 1))
    /\ enqueued' = enqueued + 1
    /\ UNCHANGED worker_vars

\* ------------------------------------------------------- the worker thread
\* the reference counts after n references on the entry of vhandle index vh of
\* conn were taken (n > 0) or released (n < 0)
EntryRefsAdd(r, conn, vh, n) == [r EXCEPT ![conn][vh] = @ + n]

\* mutants of AtDequeue: the thread takes the next message while the entries
\* of the last command are still to be flushed, or before its response went
\* to the sink
AtDequeue_WhileEvicting == pc \in {"idle", "evict"}
AtDequeue_BeforeResponding == pc \in {"idle", "respond"}
\* mutant of AtDequeue: the loop is not left on the NULL object
AtDequeue_AfterExit == pc \in {"idle", "exited"}

\* the thread is at message_queue_dequeue, at the top of its loop
AtDequeue == pc = "idle"

\* obj == NULL: the thread leaves its loop
DequeueNull ==
    /\ AtDequeue
    /\ in_queue # <<>>
    /\ message_queue_dequeue(in_queue).type = "null"
    /\ in_queue' = Tail(in_queue)
    /\ pc' = "exited"
    /\ UNCHANGED <<enqueued, arrived, locals, maps, next_vhandle, refs, tpm,
                   outputs, inflight>>

\* IS_CONTROL_MESSAGE (obj): CHECK_CANCEL tests for a pending cancellation and
\* the thread goes round its loop
DequeueControl ==
    /\ AtDequeue
    /\ in_queue # <<>>
    /\ message_queue_dequeue(in_queue).type = "control"
    /\ in_queue' = Tail(in_queue)
    /\ UNCHANGED <<enqueued, arrived, worker_vars>>

\* IS_TPM2_COMMAND (obj): resource_manager_process_tpm2_command is entered
DequeueCommand ==
    /\ AtDequeue
    /\ in_queue # <<>>
    /\ message_queue_dequeue(in_queue).type = "command"
    /\ in_queue' = Tail(in_queue)
    /\ \E conn \in Connections, shape \in CommandShapes :
          command' = Tpm2Command(message_queue_dequeue(in_queue).id, conn, shape)
    /\ inflight' = inflight \cup {message_queue_dequeue(in_queue).id}
    /\ entries' = NoEntries
    /\ entry_count' = ENTRY_COUNT - 1
    /\ i' = 0
    /\ load_rc' = TSS2_RC_SUCCESS
    /\ response' = NullResponse
    /\ calls' = <<>>
    /\ conn_refs' = 1
    /\ pc' = "process"
    /\ UNCHANGED <<enqueued, arrived, maps, next_vhandle, refs, tpm, outputs>>

\* ------------------------------------------------------- the AccessBroker
FreeSlots(t) == {s \in 1..NumSlots : t[s] = 0}
\* the slot the TPM gives the next object it loads or creates
NextSlot(t) == CHOOSE s \in FreeSlots(t) : \A o \in FreeSlots(t) : s <= o
\* the commands whose successful response carries the handle of a new
\* transient object
CreatesObject(code) ==
    code \in {TPM_CC_CreatePrimary, TPM_CC_Load, TPM_CC_LoadExternal,
              TPM_CC_ContextLoad}

\* access_broker_context_load (broker, context, &phandle): what it may return
\* and the TPM it leaves. A blob never saved cannot be loaded, nor can any
\* blob when every slot is taken.
access_broker_context_load(t, context) ==
    {[rc |-> TPM_RC_OBJECT_MEMORY, phandle |-> NoHandle, tpm |-> t]}
    \cup
    (IF context # EmptyContext /\ FreeSlots(t) # {}
     THEN {[rc |-> TSS2_RC_SUCCESS, phandle |-> Transient(NextSlot(t)),
            tpm |-> [t EXCEPT ![NextSlot(t)] = context]]}
     ELSE {})

\* access_broker_context_saveflush (broker, phandle, context): on success the
\* blob holds the object of the slot and the slot is free; on failure the
\* blob and the slot are as they were.
access_broker_context_saveflush(t, phandle, context) ==
    {[rc |-> TPM_RC_FAILURE, context |-> context, tpm |-> t]}
    \cup
    (IF phandle.ix \in 1..NumSlots /\ t[phandle.ix] # 0
     THEN {[rc |-> TSS2_RC_SUCCESS, context |-> t[phandle.ix],
            tpm |-> [t EXCEPT ![phandle.ix] = 0]]}
     ELSE {})

\* access_broker_send_command (broker, command, &rc): NULL with an error rc,
\* or the TPM's response. The object a command creates is named after the
\* command.
access_broker_send_command(t, cmd) ==
    {[response |-> NullResponse, rc |-> TSS2_TCTI_RC_IO_ERROR, tpm |-> t],
     [response |-> Tpm2Response(cmd.conn, TPM_RC_FAILURE, FALSE, NoHandle),
      rc |-> TSS2_RC_SUCCESS, tpm |-> t]}
    \cup
    (IF CreatesObject(cmd.code)
     THEN IF FreeSlots(t) # {}
          THEN {[response |-> Tpm2Response(cmd.conn, TSS2_RC_SUCCESS, TRUE,
                                           Transient(NextSlot(t))),
                 rc |-> TSS2_RC_SUCCESS,
                 tpm |-> [t EXCEPT ![NextSlot(t)] = cmd.id]]}
          ELSE {}
     ELSE IF cmd.code = TPM_CC_StartAuthSession
          THEN {[response |-> Tpm2Response(cmd.conn, TSS2_RC_SUCCESS, TRUE,
                                           SessionHandle),
                 rc |-> TSS2_RC_SUCCESS, tpm |-> t]}
          ELSE {[response |-> Tpm2Response(cmd.conn, TSS2_RC_SUCCESS, FALSE,
                                           NoHandle),
                 rc |-> TSS2_RC_SUCCESS, tpm |-> t]})

\* the object the TPM created for the command send_command returned out for,
\* 0 when it created none
CreatedObject(out) ==
    IF ~out.response.null /\ out.response.has_handle
       /\ HandleType(out.response.handle) = TPM_HT_TRANSIENT
    THEN out.tpm[out.response.handle.ix]
    ELSE 0

\* one AccessBroker call, as recorded in calls: what it was given (the entry
\* and its phandle before, the handle area of the command) and what it
\* returned (rc, phandle, the object loaded, saved or created, the response)
Call(op, rc, entry, slot, before, phandle, obj, handles, resp) ==
    [op |-> op, rc |-> rc, entry |-> entry, slot |-> slot, before |-> before,
     phandle |-> phandle, obj |-> obj, handles |-> handles, response |-> resp]

\* ------------------------------------------- resource_manager_* functions
\* mutant of resource_manager_is_over_object_quota: a case label is missing
resource_manager_is_over_object_quota_NoLoadExternal(cmd, m) ==
    /\ tpm2_command_get_code(cmd) \in {TPM_CC_CreatePrimary, TPM_CC_Load}
    /\ handle_map_is_full(m[tpm2_command_get_connection(cmd)])

\* resource_manager_is_over_object_quota
resource_manager_is_over_object_quota(cmd, m) ==
    /\ tpm2_command_get_code(cmd) \in
           {TPM_CC_CreatePrimary, TPM_CC_Load, TPM_CC_LoadExternal}
    /\ handle_map_is_full(m[tpm2_command_get_connection(cmd)])

\* sink_enqueue (resmgr->sink, G_OBJECT (resp)) for the command being
\* processed
SinkEnqueue(resp) ==
    /\ sink' = Append(sink, resp)
    /\ responded' = responded \cup {command.id}
    /\ issued' = IF ~resp.null /\ resp.has_handle
                     /\ HandleType(resp.handle) = TPM_HT_TRANSIENT
                  THEN [issued EXCEPT ![resp.conn] = @ \cup {resp.handle}]
                  ELSE issued

\* the quota branch of resource_manager_process_tpm2_command: the response
\* is built and enqueued and the function returns
QuotaReject ==
    /\ pc = "process"
    /\ resource_manager_is_over_object_quota(command, maps)
    /\ response' = tpm2_response_new_rc(tpm2_command_get_connection(command),
                                        TSS2_RESMGR_RC_OBJECT_MEMORY)
    /\ SinkEnqueue(response')
    /\ conn_refs' = conn_refs - 1
    /\ pc' = "done"
    /\ UNCHANGED <<in_queue, enqueued, arrived, command, entries, entry_count, i,
                   load_rc, maps, next_vhandle, refs, tpm, calls, inflight>>

\* mutants of FlushTransient: handle_map_remove is not called; the else
\* branch leaves rc at TSS2_RC_SUCCESS
FlushTransient_KeepsEntry(map, handle) ==
    IF handle_map_vlookup(map, handle) # -1
    THEN [map |-> map, rc |-> TSS2_RC_SUCCESS]
    ELSE [map |-> map, rc |-> RM_RC(TPM_RC_HANDLE + TPM_RC_P + TPM_RC_1)]
FlushTransient_AbsentSucceeds(map, handle) ==
    IF handle_map_vlookup(map, handle) # -1
    THEN [map |-> handle_map_remove(map, handle), rc |-> TSS2_RC_SUCCESS]
    ELSE [map |-> map, rc |-> TSS2_RC_SUCCESS]

\* resource_manager_flush_context, TPM_HT_TRANSIENT case: the map and the
\* rc of the response
FlushTransient(map, handle) ==
    IF handle_map_vlookup(map, handle) # -1
    THEN [map |-> handle_map_remove(map, handle), rc |-> TSS2_RC_SUCCESS]
    ELSE [map |-> map, rc |-> RM_RC(TPM_RC_HANDLE + TPM_RC_P + TPM_RC_1)]

\* mutant of FlushContext: a handle that is not transient is answered
\* without the command being sent
FlushContext_NoForward ==
    /\ pc = "process"
    /\ ~resource_manager_is_over_object_quota(command, maps)
    /\ tpm2_command_get_code(command) = TPM_CC_FlushContext
    /\ LET handle == tpm2_command_get_flush_handle(command)
           conn == tpm2_command_get_connection(command)
       IN  IF HandleType(handle) = TPM_HT_TRANSIENT
           THEN /\ maps' = [maps EXCEPT
                               ![conn] = FlushTransient(maps[conn], handle).map]
                /\ response' = tpm2_response_new_rc(conn,
                                   FlushTransient(maps[conn], handle).rc)
                /\ refs' = IF handle_map_vlookup(maps[conn], handle) # -1
                           THEN EntryRefsAdd(refs, conn, handle.ix, -1)
                           ELSE refs
                /\ UNCHANGED <<tpm, calls>>
           ELSE /\ response' = tpm2_response_new_rc(conn, TSS2_RC_SUCCESS)
                /\ UNCHANGED <<maps, refs, tpm, calls>>
    /\ entry_count' = 0
    /\ conn_refs' = conn_refs - 1
    /\ pc' = "respond"
    /\ UNCHANGED <<in_queue, enqueued, arrived, command, entries, i, load_rc,
                   next_vhandle, outputs, inflight>>

\* case TPM_CC_FlushContext of resource_manager_process_tpm2_command
FlushContext ==
    /\ pc = "process"
    /\ ~resource_manager_is_over_object_quota(command, maps)
    /\ tpm2_command_get_code(command) = TPM_CC_FlushContext
    /\ LET handle == tpm2_command_get_flush_handle(command)
           conn == tpm2_command_get_connection(command)
       IN  IF HandleType(handle) = TPM_HT_TRANSIENT
           THEN /\ maps' = [maps EXCEPT
                               ![conn] = FlushTransient(maps[conn], handle).map]
                /\ response' = tpm2_response_new_rc(conn,
                                   FlushTransient(maps[conn], handle).rc)
                /\ refs' = IF handle_map_vlookup(maps[conn], handle) # -1
                           THEN EntryRefsAdd(refs, conn, handle.ix, -1)
                           ELSE refs
                /\ UNCHANGED <<tpm, calls>>
           ELSE \E out \in access_broker_send_command(tpm, command) :
                    /\ response' = out.response
                    /\ tpm' = out.tpm
                    /\ calls' = Append(calls,
                           Call("send_command", out.rc, NullEntry, -1, NoHandle,
                                NoHandle, 0, command.handles, out.response))
                    /\ UNCHANGED <<maps, refs>>
    /\ entry_count' = 0
    /\ conn_refs' = conn_refs - 1
    /\ pc' = "respond"
    /\ UNCHANGED <<in_queue, enqueued, arrived, command, entries, i, load_rc,
                   next_vhandle, outputs, inflight>>

\* default case: resource_manager_load_contexts is entered when the command
\* has handles; it returns at once, entry_count as it was, when the command
\* has more handles than the caller has room for
LoadBegin ==
    /\ pc = "process"
    /\ ~resource_manager_is_over_object_quota(command, maps)
    /\ tpm2_command_get_code(command) # TPM_CC_FlushContext
    /\ IF tpm2_command_get_handle_count(command) > 0
       THEN IF tpm2_command_get_handle_count(command) > entry_count
            THEN /\ load_rc' = RM_RC(TSS2_BASE_RC_GENERAL_FAILURE)
                 /\ pc' = "send"
                 /\ conn_refs' = conn_refs + 1
                 /\ UNCHANGED entry_count
            ELSE /\ entry_count' = 0
                 /\ pc' = "load"
                 /\ conn_refs' = conn_refs + 1
                 /\ UNCHANGED load_rc
       ELSE /\ entry_count' = 0
            /\ pc' = "send"
            /\ UNCHANGED <<load_rc, conn_refs>>
    /\ i' = 0
    /\ UNCHANGED <<in_queue, enqueued, arrived, command, entries, response, maps,
                   next_vhandle, refs, tpm, outputs, calls, inflight>>

\* resource_manager_virt_to_phys: the entry after context_load returned out
resource_manager_virt_to_phys(entry, out) ==
    IF out.rc = TSS2_RC_SUCCESS
    THEN [entry EXCEPT !.phandle = out.phandle]
    ELSE entry

\* one turn of the for loop of resource_manager_load_contexts, for
\* handles [i]
LoadStep ==
    /\ pc = "load"
    /\ LET conn == tpm2_command_get_connection(command)
           handle == command.handles[i + 1]
           map == maps[conn]
           vh == handle_map_vlookup(map, handle)
       IN  IF HandleType(handle) = TPM_HT_TRANSIENT /\ vh # -1
           THEN \E out \in access_broker_context_load(tpm, map[vh].context) :
                   /\ refs' = EntryRefsAdd(refs, conn, vh, 1)
                   /\ load_rc' = out.rc
                   /\ tpm' = out.tpm
                   /\ maps' = [maps EXCEPT ![conn][vh] =
                                  resource_manager_virt_to_phys(map[vh], out)]
                   /\ calls' = Append(calls,
                          Call("context_load", out.rc, EntryRef(conn, vh), i,
                               map[vh].phandle, out.phandle, map[vh].context,
                               <<>>, NullResponse))
                   /\ IF out.rc = TSS2_RC_SUCCESS
                      THEN /\ command' = tpm2_command_set_handle(command,
                                             out.phandle, i)
                           /\ entries' = [entries EXCEPT
                                             ![entry_count] = EntryRef(conn, vh)]
                           /\ entry_count' = entry_count + 1
                      ELSE UNCHANGED <<command, entries, entry_count>>
           ELSE UNCHANGED <<command, entries, entry_count, load_rc, maps, refs,
                            tpm, calls>>
    /\ i' = i + 1
    /\ pc' = IF i + 1 < tpm2_command_get_handle_count(command)
             THEN "load" ELSE "send"
    /\ conn_refs' = IF i + 1 < tpm2_command_get_handle_count(command)
                    THEN conn_refs ELSE conn_refs - 1
    /\ UNCHANGED <<in_queue, enqueued, arrived, response, next_vhandle, outputs,
                   inflight>>

\* mutant of VirtualizedResponse: tpm2_response_set_handle is not called
VirtualizedResponse_KeepsPhysical(resp, vhandle) == resp
\* mutant of VirtualizedResponse: the handle set is not the one inserted
VirtualizedResponse_OffByOne(resp, vhandle) ==
    tpm2_response_set_handle(resp, Transient(vhandle.ix + 1))

\* resource_manager_virtualize_handle: the handle the response is left with
\* once its transient handle got the virtual handle vhandle
VirtualizedResponse(resp, vhandle) == tpm2_response_set_handle(resp, vhandle)

\* access_broker_send_command, the response built for a NULL one, and
\* resource_manager_virtualize_handle for a response that has a handle
Send ==
    /\ pc = "send"
    /\ \E out \in access_broker_send_command(tpm, command) :
          LET conn == tpm2_command_get_connection(command)
              resp == IF out.response.null
                      THEN tpm2_response_new_rc(conn, out.rc)
                      ELSE out.response
              phandle == tpm2_response_get_handle(resp)
              vhandle == handle_map_next_vhandle(next_vhandle[conn])
          IN  /\ tpm' = out.tpm
              /\ calls' = Append(calls,
                     Call("send_command", out.rc, NullEntry, -1, NoHandle,
                          NoHandle, CreatedObject(out), command.handles,
                          out.response))
              /\ IF tpm2_response_has_handle(resp)
                 THEN IF HandleType(phandle) = TPM_HT_TRANSIENT
                      THEN /\ maps' = [maps EXCEPT ![conn] =
                                  handle_map_insert(maps[conn], vhandle,
                                      HandleMapEntry(phandle, EmptyContext))]
                           /\ next_vhandle' = [next_vhandle EXCEPT
                                                  ![conn] = @ + 1]
                           /\ refs' = [refs EXCEPT ![conn] =
                                           (vhandle.ix :> 2) @@ @]
                           /\ response' = VirtualizedResponse(resp, vhandle)
                           /\ entries' = [entries EXCEPT ![entry_count] =
                                             EntryRef(conn, vhandle.ix)]
                           /\ entry_count' = entry_count + 1
                      ELSE /\ entries' = [entries EXCEPT
                                             ![entry_count] = NullEntry]
                           /\ response' = resp
                           /\ UNCHANGED <<maps, next_vhandle, refs, entry_count>>
                 ELSE /\ response' = resp
                      /\ UNCHANGED <<maps, next_vhandle, refs, entries,
                                     entry_count>>
    /\ pc' = "respond"
    /\ UNCHANGED <<in_queue, enqueued, arrived, command, i, load_rc, outputs,
                   conn_refs, inflight>>

\* sink_enqueue (resmgr->sink, G_OBJECT (response)) after the switch
Respond ==
    /\ pc = "respond"
    /\ SinkEnqueue(response)
    /\ conn_refs' = conn_refs - 1
    /\ i' = 0
    /\ pc' = IF entry_count > 0 THEN "evict" ELSE "done"
    /\ UNCHANGED <<in_queue, enqueued, arrived, command, entries, entry_count,
                   load_rc, response, maps, next_vhandle, refs, tpm, calls,
                   inflight>>

\* mutant of resource_manager_flushsave_context: the phandle is not cleared
resource_manager_flushsave_context_KeepsPhandle(entry, out) ==
    IF out.rc = TSS2_RC_SUCCESS
    THEN [entry EXCEPT !.context = out.context]
    ELSE entry

\* resource_manager_flushsave_context: the entry after context_saveflush
\* returned out
resource_manager_flushsave_context(entry, out) ==
    IF out.rc = TSS2_RC_SUCCESS
    THEN [entry EXCEPT !.phandle = NoHandle, !.context = out.context]
    ELSE entry

\* the entries a slot of entries[] that was never written may point to
LiveEntries(m) == UNION {{EntryRef(c, vh) : vh \in DOMAIN m[c]} : c \in Connections}

\* resource_manager_flushsave_context (resmgr, entries [i]) for an entry
FlushSave(e) ==
    LET entry == maps[e.conn][e.vh]
    IN  IF HandleType(entry.phandle) = TPM_HT_TRANSIENT
        THEN \E out \in access_broker_context_saveflush(tpm, entry.phandle,
                                                        entry.context) :
                /\ tpm' = out.tpm
                /\ maps' = [maps EXCEPT ![e.conn][e.vh] =
                               resource_manager_flushsave_context(entry, out)]
                /\ calls' = Append(calls,
                       Call("context_saveflush", out.rc, e, i, entry.phandle,
                            entry.phandle, out.context, <<>>, NullResponse))
        ELSE UNCHANGED <<tpm, maps, calls>>

\* mutant of EvictStep: the loop body does not call
\* resource_manager_flushsave_context
EvictStep_NoFlushSave ==
    /\ pc = "evict"
    /\ entries[i].kind = "entry"
    /\ i' = i + 1
    /\ pc' = IF i + 1 < entry_count THEN "evict" ELSE "done"
    /\ UNCHANGED <<in_queue, enqueued, arrived, command, entries, entry_count,
                   load_rc, response, next_vhandle, outputs, inflight, tpm,
                   maps, calls, conn_refs, refs>>

\* one turn of the flushsave loop that ends process_tpm2_command
EvictStep ==
    /\ pc = "evict"
    /\ entries[i].kind = "entry"
    /\ FlushSave(entries[i])
    /\ refs' = EntryRefsAdd(refs, entries[i].conn, entries[i].vh, -1)
    /\ i' = i + 1
    /\ pc' = IF i + 1 < entry_count THEN "evict" ELSE "done"
    /\ UNCHANGED <<in_queue, enqueued, arrived, command, entries, entry_count,
                   load_rc, response, next_vhandle, outputs, conn_refs,
                   inflight>>

\* the same turn when entries [i] was never written: the pointer read is
\* whatever the stack held. It faults, or it points at memory that does not
\* read as a transient phandle, or at an entry that is still alive.
EvictUninitialized ==
    /\ pc = "evict"
    /\ entries[i].kind = "uninit"
    /\ \/ /\ pc' = "crashed"
          /\ UNCHANGED <<tpm, maps, refs, calls, i>>
       \/ /\ \/ UNCHANGED <<tpm, maps, refs, calls>>
             \/ \E e \in LiveEntries(maps) :
                    /\ FlushSave(e)
                    /\ refs' = IF refs[e.conn][e.vh] > 0
                               THEN EntryRefsAdd(refs, e.conn, e.vh, -1)
                               ELSE refs
          /\ i' = i + 1
          /\ pc' = IF i + 1 < entry_count THEN "evict" ELSE "done"
    /\ UNCHANGED <<in_queue, enqueued, arrived, command, entries, entry_count,
                   load_rc, response, next_vhandle, outputs, conn_refs,
                   inflight>>

\* resource_manager_process_tpm2_command returns and the thread is back at
\* the top of its loop
Return ==
    /\ pc = "done"
    /\ pc' = "idle"
    /\ inflight' = inflight \ {command.id}
    /\ command' = NoCommand
    /\ entries' = NoEntries
    /\ entry_count' = 0
    /\ i' = 0
    /\ load_rc' = TSS2_RC_SUCCESS
    /\ response' = NullResponse
    /\ calls' = <<>>
    /\ conn_refs' = 0
    /\ sink' = <<>>
    /\ UNCHANGED <<in_queue, enqueued, arrived, maps, next_vhandle, refs, tpm,
                   responded, issued>>

Next ==
    \/ EnqueueCommand
    \/ EnqueueNull
    \/ Unblock
    \/ DequeueNull
    \/ DequeueControl
    \/ DequeueCommand
    \/ QuotaReject
    \/ FlushContext
    \/ LoadBegin
    \/ LoadStep
    \/ Send
    \/ Respond
    \/ EvictStep
    \/ EvictUninitialized
    \/ Return

Spec == Init /\ [][Next]_vars

\* ------------------------------------------------------------ the claims
\* positions of calls holding the calls of one kind
CallsOf(op) == {k \in 1..Len(calls) : calls[k].op = op}
FailedCalls(op) == {k \in CallsOf(op) : calls[k].rc # TSS2_RC_SUCCESS}
\* the command has passed the sink_enqueue of process_tpm2_command
Responded == pc \in {"evict", "done", "crashed"}
\* the response carries a transient handle
CarriesTransient(resp) ==
    /\ ~resp.null
    /\ resp.has_handle
    /\ HandleType(resp.handle) = TPM_HT_TRANSIENT

\* C1: every command the worker dequeued gets exactly one response object on
\* the sink, and that object is never NULL.
C1_OneResponsePerCommand ==
    /\ \A k \in 1..Len(sink) : ~sink[k].null
    /\ Len(sink) <= 1
    /\ Responded => (Len(sink) = 1 /\ command.id \in responded)

\* objects that were loaded for, or created by, the command being processed
ObjectsOfCommand ==
    {calls[k].obj : k \in CallsOf("context_load") \ FailedCalls("context_load")}
    \cup {calls[k].obj : k \in {l \in CallsOf("send_command") : calls[l].obj # 0}}

\* C2: once a command has completed and every context_saveflush made for it
\* succeeded, no TPM slot holds an object loaded for or created by it.
C2_SlotsReleasedAfterCommand ==
    (pc = "done" /\ FailedCalls("context_saveflush") = {})
        => \A s \in 1..NumSlots : tpm[s] \notin ObjectsOfCommand

\* C3: when a context_load of the command failed, send_command is not called
\* for it and the response enqueued carries the rc of the failed load.
C3_LoadFailureAbortsCommand ==
    \A k \in FailedCalls("context_load") :
        /\ CallsOf("send_command") = {}
        /\ \A p \in 1..Len(sink) : ~sink[p].null /\ sink[p].rc = calls[k].rc

\* C4: context_load is called for an entry only while its phandle is 0.
C4_LoadOnlyWhenEvicted ==
    \A k \in CallsOf("context_load") : calls[k].before = NoHandle

\* the worker is between two commands
BetweenCommands == pc \in {"idle", "done", "exited"}

QuotaCase ==
    /\ pc = "process"
    /\ command.code \in {TPM_CC_CreatePrimary, TPM_CC_Load, TPM_CC_LoadExternal}
    /\ handle_map_is_full(maps[command.conn])

\* C6: in the quota case the worker's step enqueues a response with rc
\* RESMGR_RC_OBJECT_MEMORY and nothing else, calls the AccessBroker for
\* nothing, changes no handle map, and the worker is then back at its queue.
C6_QuotaRejection ==
    [][/\ (QuotaCase /\ pc' # pc) =>
              /\ pc' = "done"
              /\ sink = <<>>
              /\ sink' = <<tpm2_response_new_rc(command.conn,
                                                TSS2_RESMGR_RC_OBJECT_MEMORY)>>
              /\ calls = <<>> /\ calls' = <<>>
              /\ maps' = maps /\ next_vhandle' = next_vhandle /\ tpm' = tpm
       /\ (pc = "done" /\ pc' # pc) => pc' = "idle"]_vars

C6_Witness ==
    /\ pc = "done"
    /\ command.code \in {TPM_CC_CreatePrimary, TPM_CC_Load, TPM_CC_LoadExternal}
    /\ handle_map_is_full(maps[command.conn])
    /\ calls = <<>>
    /\ Len(sink) = 1
    /\ sink[1].rc = TSS2_RESMGR_RC_OBJECT_MEMORY

\* C7: at most one command is between the start of handle rewriting and the
\* end of eviction at any instant.
C7_OneCommandInPipeline ==
    /\ Cardinality(inflight) <= 1
    /\ pc \in {"process", "load", "send", "respond", "evict", "done"}
           => inflight = {command.id}

\* a command is being evicted while two more wait on the queue
C7_Witness ==
    /\ pc = "evict"
    /\ inflight = {command.id}
    /\ Len(in_queue) >= 2
    /\ \A k \in 1..Len(in_queue) : in_queue[k].type = "command"

\* C8: responses reach the sink in the order their commands arrived, and a
\* command's response is on the sink before any AccessBroker call is made
\* for a command that arrived later.
C8_ResponsesInArrivalOrder ==
    /\ \A a, b \in arrived : (a < b /\ b \in responded) => a \in responded
    /\ \A a \in arrived : (a < command.id /\ calls # <<>>) => a \in responded

\* the third command has a context loaded, the two before it are answered
C8_Witness ==
    /\ Cardinality(responded) = 2
    /\ command.id \notin responded
    /\ CallsOf("context_load") # {}

\* C9: a virtual handle placed in a response differs from every virtual
\* handle placed in an earlier response of the same connection.
C9_VirtualHandlesUnique ==
    [][(sink = <<>> /\ Len(sink') = 1 /\ CarriesTransient(sink'[1]))
           => /\ sink'[1].handle \notin issued[sink'[1].conn]
              /\ issued' = [issued EXCEPT ![sink'[1].conn] =
                                @ \cup {sink'[1].handle}]]_vars

\* two handles were issued to one connection, the first of them flushed
\* before the second was issued
C9_Witness ==
    \E c \in Connections :
        /\ Cardinality(issued[c]) = 2
        /\ handle_map_size(maps[c]) = 1
        /\ pc = "done"
        /\ CarriesTransient(sink[1])
        /\ sink[1].handle.ix \in DOMAIN maps[c]

\* the entries of the command's touched-entry list
Touched == {entries[k] : k \in 0..(entry_count - 1)} \cap LiveEntries(maps)
\* a context_saveflush made for entry e failed
SaveFlushFailed(e) ==
    \E k \in FailedCalls("context_saveflush") : calls[k].entry = e

\* C10: after a command completes every entry of its touched-entry list has
\* phandle 0, unless the context_saveflush call for that entry failed.
C10_TouchedEntriesEvicted ==
    pc = "done" =>
        \A e \in Touched :
            maps[e.conn][e.vh].phandle = NoHandle \/ SaveFlushFailed(e)

\* a command with two touched entries: one evicted, one whose saveflush
\* failed
C10_Witness ==
    /\ pc = "done"
    /\ entry_count = 2
    /\ \E e, f \in Touched :
          /\ maps[e.conn][e.vh].phandle = NoHandle
          /\ ~SaveFlushFailed(e)
          /\ maps[f.conn][f.vh].phandle # NoHandle
          /\ SaveFlushFailed(f)

\* C11: processing a command of one connection leaves the handle map of
\* every other connection as it was, and no AccessBroker call of the command
\* is made for an entry of another connection.
C11_OtherMapsUntouched ==
    [][/\ \A b \in Connections \ {command.conn} : maps'[b] = maps[b]
       /\ \A k \in 1..Len(calls') :
             calls'[k].entry.kind = "entry"
                 => calls'[k].entry.conn = command'.conn]_vars

\* the command being processed is a FlushContext of a transient handle
FlushOfTransient ==
    /\ command.code = TPM_CC_FlushContext
    /\ HandleType(command.flush_handle) = TPM_HT_TRANSIENT
\* the step that enqueues the response of a FlushContext of a transient
\* handle hands the sink that response and touches nothing else
FlushResponseEnqueued ==
    (pc = "respond" /\ FlushOfTransient /\ pc' # pc)
        => /\ sink = <<>> /\ sink' = <<response>>
           /\ maps' = maps /\ tpm' = tpm
           /\ calls = <<>> /\ calls' = <<>>
           /\ pc' = "done"

\* C12: FlushContext of a transient handle V that is in the connection's map
\* removes V, leaves every other entry as it was, builds a response with rc
\* TSS2_RC_SUCCESS that is then enqueued, and calls the AccessBroker for
\* nothing.
C12_FlushManagedHandle ==
    [][/\ (/\ pc = "process" /\ FlushOfTransient
           /\ command.flush_handle.ix \in DOMAIN maps[command.conn]
           /\ pc' # pc)
          => /\ DOMAIN maps'[command.conn] =
                    (DOMAIN maps[command.conn]) \ {command.flush_handle.ix}
             /\ \A vh \in DOMAIN maps'[command.conn] :
                    maps'[command.conn][vh] = maps[command.conn][vh]
             /\ \A b \in Connections \ {command.conn} : maps'[b] = maps[b]
             /\ response' = tpm2_response_new_rc(command.conn, TSS2_RC_SUCCESS)
             /\ calls = <<>> /\ calls' = <<>> /\ tpm' = tpm
             /\ pc' = "respond"
       /\ FlushResponseEnqueued]_vars

\* V was flushed from a map that held another entry, which is still there
C12_Witness ==
    /\ pc = "done"
    /\ FlushOfTransient
    /\ sink = <<tpm2_response_new_rc(command.conn, TSS2_RC_SUCCESS)>>
    /\ command.flush_handle.ix \notin DOMAIN maps[command.conn]
    /\ handle_map_size(maps[command.conn]) = 1

\* C13: FlushContext of a transient handle that is not in the connection's
\* map builds a response with rc RM_RC (TPM_RC_HANDLE + TPM_RC_P + TPM_RC_1)
\* that is then enqueued, changes no map and calls the AccessBroker for
\* nothing.
C13_FlushUnknownHandle ==
    [][/\ (/\ pc = "process" /\ FlushOfTransient
           /\ command.flush_handle.ix \notin DOMAIN maps[command.conn]
           /\ pc' # pc)
          => /\ maps' = maps
             /\ response' = tpm2_response_new_rc(command.conn,
                    TSS2_RESMGR_ERROR_LEVEL + TPM_RC_HANDLE + TPM_RC_P
                        + TPM_RC_1)
             /\ calls = <<>> /\ calls' = <<>> /\ tpm' = tpm
             /\ pc' = "respond"
       /\ FlushResponseEnqueued]_vars

\* an unknown handle was refused while the map held an entry
C13_Witness ==
    /\ pc = "done"
    /\ FlushOfTransient
    /\ sink = <<tpm2_response_new_rc(command.conn,
                    RM_RC(TPM_RC_HANDLE + TPM_RC_P + TPM_RC_1))>>
    /\ handle_map_size(maps[command.conn]) = 1
    /\ command.flush_handle.ix \notin DOMAIN maps[command.conn]

\* the command being processed is a FlushContext of a handle that is not
\* transient
FlushOfUnmanaged ==
    /\ command.code = TPM_CC_FlushContext
    /\ HandleType(command.flush_handle) # TPM_HT_TRANSIENT

\* C14: FlushContext of a handle that is not transient is given to
\* access_broker_send_command once and as it was dequeued, what the call
\* returned is what the sink is handed, and no handle map changes and no
\* context_load or context_saveflush is made.
C14_FlushUnmanagedForwarded ==
    [][/\ (pc = "process" /\ FlushOfUnmanaged /\ pc' # pc)
          => /\ calls = <<>> /\ Len(calls') = 1
             /\ calls'[1].op = "send_command"
             /\ calls'[1].handles = command.handles
             /\ response' = calls'[1].response
             /\ command' = command /\ maps' = maps
             /\ pc' = "respond"
       /\ (pc = "respond" /\ FlushOfUnmanaged /\ pc' # pc)
          => /\ sink = <<>> /\ sink' = <<calls[1].response>>
             /\ calls' = calls /\ Len(calls) = 1
             /\ command' = command /\ maps' = maps /\ tpm' = tpm
             /\ pc' = "done"]_vars

\* the TPM's answer to a FlushContext of a session handle went to the sink
\* while a map held an entry
C14_Witness ==
    /\ pc = "done"
    /\ FlushOfUnmanaged
    /\ Len(calls) = 1
    /\ ~calls[1].response.null
    /\ sink = <<calls[1].response>>
    /\ \E c \in Connections : handle_map_size(maps[c]) > 0

\* the command being processed is not FlushContext and no slot of its
\* handle area holds a transient handle
NoTransientSlot ==
    /\ command.code \notin {NoCommand.code, TPM_CC_FlushContext}
    /\ \A k \in 1..Len(command.handles) :
           HandleType(command.handles[k]) # TPM_HT_TRANSIENT
\* a response of the AccessBroker that carries no transient handle
PlainAnswer(resp) == ~resp.null /\ ~CarriesTransient(resp)

\* C15: for a command with no transient handle in its handle area whose
\* response from the AccessBroker carries no transient handle, the command
\* sent is the command dequeued, the response enqueued is the response
\* returned, no handle map changes and no context_load or context_saveflush
\* is made.
C15_PassThrough ==
    [][(NoTransientSlot /\ enqueued' = enqueued /\ pc # "done")
          => /\ command' = command
             /\ pc \in {"process", "load"} => (maps' = maps /\ calls' = <<>>)
             /\ pc = "send"
                   => /\ Len(calls') = 1
                      /\ calls'[1].op = "send_command"
                      /\ calls'[1].handles = command.handles
                      /\ PlainAnswer(calls'[1].response)
                            => (response' = calls'[1].response /\ maps' = maps)
             /\ (pc \in {"respond", "evict"} /\ Len(calls) >= 1
                 /\ PlainAnswer(calls[1].response))
                   => /\ maps' = maps /\ calls' = calls
                      /\ pc = "respond" => sink' = <<calls[1].response>>]_vars

\* C16: a command carrying virtual handle V in slot i reaches the
\* AccessBroker with slot i holding the physical handle context_load returned
\* for the context of V's entry, never V itself; and once the command has
\* completed with every context_saveflush successful, V still maps to its
\* entry, whose phandle is 0 and whose context is the object again.
C16_CreateThenUseRoundTrip ==
    /\ \A s \in CallsOf("send_command"), k \in CallsOf("context_load") :
           /\ calls[k].rc = TSS2_RC_SUCCESS
           /\ HandleType(calls[k].phandle) = TPM_HT_TRANSIENT
           /\ calls[s].handles[calls[k].slot + 1] = calls[k].phandle
    /\ (pc = "done" /\ FailedCalls("context_saveflush") = {})
           => \A k \in CallsOf("context_load") \ FailedCalls("context_load") :
                  /\ calls[k].entry.vh \in DOMAIN maps[calls[k].entry.conn]
                  /\ maps[calls[k].entry.conn][calls[k].entry.vh] =
                         HandleMapEntry(NoHandle, calls[k].obj)

\* ids of the messages still on the input queue
Queued(queue) == {queue[k].id : k \in 1..Len(queue)}

\* C17: the step that dequeues the NULL object ends the thread; from then on
\* nothing is dequeued, no AccessBroker call is made and nothing is handed
\* to the sink, whatever is left on the queue; and a sink_enqueue call has
\* been made for every command that was enqueued ahead of the NULL object.
C17_NullMessageTerminates ==
    [][/\ (/\ pc = "idle" /\ in_queue # <<>>
           /\ message_queue_dequeue(in_queue).type = "null"
           /\ enqueued' = enqueued)
          => pc' = "exited"
       /\ pc = "exited"
          => /\ pc' = "exited"
             /\ Queued(in_queue) \subseteq Queued(in_queue')
             /\ calls' = calls /\ tpm' = tpm /\ maps' = maps
             /\ sink' = sink /\ responded' = responded
       /\ pc' = "exited"
          => \A a \in arrived' \ Queued(in_queue') : a \in responded']_vars

\* the thread ended after answering a command, with a command left on the
\* queue
C17_Witness ==
    /\ pc = "exited"
    /\ responded # {}
    /\ \E k \in 1..Len(in_queue) : in_queue[k].type = "command"

\* C18: the context_load calls of a command are made in increasing slot
\* order, and none is made after one of them has failed.
C18_LoadsStopAtFirstFailure ==
    \A k, l \in CallsOf("context_load") :
        k < l => (calls[k].slot < calls[l].slot /\ calls[k].rc = TSS2_RC_SUCCESS)

LoadedForCommand(e) ==
    \E k \in CallsOf("context_load") \ FailedCalls("context_load") :
        calls[k].entry = e
\* entry e was created for the response of the command being processed
CreatedForCommand(e) ==
    /\ CarriesTransient(response)
    /\ e = EntryRef(response.conn, response.handle.ix)

\* C20: whatever handle_count the command reports, the touched-entry list
\* the flushsave loop runs over has at most ENTRY_COUNT elements, and each
\* of them was written during this command: an entry loaded for it or the
\* entry created for its response.
C20_TouchedListWritten ==
    pc = "evict"
        => /\ entry_count <= ENTRY_COUNT
           /\ \A k \in 0..(entry_count - 1) :
                  /\ entries[k].kind = "entry"
                  /\ \/ LoadedForCommand(entries[k])
                     \/ CreatedForCommand(entries[k])

\* access_broker_send_command returned NULL and an error rc for the command
\* being processed, which is not a FlushContext
SentNull ==
    /\ command.code # TPM_CC_FlushContext
    /\ \E s \in CallsOf("send_command") :
           calls[s].response.null /\ calls[s].rc # TSS2_RC_SUCCESS

\* C21: when access_broker_send_command returns NULL with an error rc for a
\* command other than FlushContext, the response built and enqueued carries
\* that rc, no entry is added to any handle map, and a context_saveflush
\* call is made for every entry that was loaded for the command.
C21_NullResponseSynthesized ==
    [][/\ (/\ pc = "send" /\ enqueued' = enqueued
           /\ calls'[Len(calls')].response.null)
          => /\ calls'[Len(calls')].rc # TSS2_RC_SUCCESS
             /\ response' = tpm2_response_new_rc(command.conn,
                                                 calls'[Len(calls')].rc)
             /\ maps' = maps /\ next_vhandle' = next_vhandle
             /\ entries' = entries /\ entry_count' = entry_count
       /\ (SentNull /\ enqueued' = enqueued /\ pc # "done")
          => /\ \A c \in Connections : DOMAIN maps'[c] = DOMAIN maps[c]
             /\ pc = "respond" => sink' = <<response>>
       /\ (SentNull /\ pc = "done")
          => /\ Len(sink) = 1
             /\ \A s \in CallsOf("send_command") : sink[1].rc = calls[s].rc
             /\ \A k \in CallsOf("context_load") \ FailedCalls("context_load") :
                    \E f \in CallsOf("context_saveflush") :
                        f > k /\ calls[f].entry = calls[k].entry]_vars

\* the exchange with the TPM failed for a command that had an entry loaded,
\* and the entry went through context_saveflush
C21_Witness ==
    /\ pc = "done"
    /\ SentNull
    /\ sink = <<tpm2_response_new_rc(command.conn, TSS2_TCTI_RC_IO_ERROR)>>
    /\ CallsOf("context_load") \ FailedCalls("context_load") # {}
    /\ CallsOf("context_saveflush") # {}

\* C22: whenever FlushContext is about to remove a managed virtual handle
\* from the map without contacting the TPM, the entry it removes has
\* phandle 0, so the object occupies no transient slot of the TPM.
C22_FlushedEntryIsEvicted ==
    (/\ pc = "process" /\ FlushOfTransient
     /\ command.flush_handle.ix \in DOMAIN maps[command.conn])
        => maps[command.conn][command.flush_handle.ix].phandle = NoHandle

\* C23: when process_tpm2_command returns, on whichever path, it has
\* released as many references on the command's connection as it acquired.
C23_ConnectionRefsBalanced ==
    pc = "done" => conn_refs = 0

\* C24: once a command has completed, every HandleMapEntry still in a map
\* has reference count 1, the map's, and every entry FlushContext removed
\* has count 0: each reference a lookup took during the command has been
\* released.
C24_EntryRefsBalanced ==
    pc = "done" =>
        \A c \in Connections : \A vh \in DOMAIN refs[c] :
            refs[c][vh] = IF vh \in DOMAIN maps[c] THEN 1 ELSE 0

====
